---- MODULE Spec2Model ----
(***************************************************************************)
(* A model of collect.py (aws-dashboard-collector): one run of main().     *)
(*                                                                         *)
(* Time is counted in abstract ticks; the real ranges (a 3600 s budget,    *)
(* dashboard waits drawn from 60..299 s, item waits from 10..59 s) are     *)
(* scaled down, keeping "a wait can be shorter or longer than what is left *)
(* of the budget".  URLs are small integers, texts are sequences of        *)
(* characters each of which is 1 or 2 bytes long in UTF-8.  gzip framing   *)
(* is a reversible transform of the bytes written and is not modelled;     *)
(* yaml.dump / yaml.load are modelled by Dump / Load.                      *)
(***************************************************************************)
EXTENDS Integers, Sequences, FiniteSets, TLC

\* ------------------------------------------------------------- bounds
MaxLinks == 2          \* longest list of hrefs on the dashboard page
MaxTimeout == 4        \* largest --timeout, in ticks

\* ---------------------------------------------------------- universes
Urls == {1, 2}                      \* absolute feed URLs
DashboardUrl == 0                   \* args.dashboard_url
MinFeedsChoices == {0, 2}           \* --min-feeds
StartTime == 10                     \* start = time()
DashWaits == 2..3                   \* randrange(60, 300), scaled
ItemWaits == 1..2                   \* randrange(10, 60), scaled
Texts == {<<1>>, <<2, 1>>}          \* r.text of a feed; char 2 is non-ASCII
Statuses == {200, 503}              \* r.status_code
NoFile == [exists |-> FALSE, bytes |-> <<>>]   \* a path with no file
NoUrl == 0 - 1
NoResponse == [status_code |-> 0, text |-> <<>>]   \* r is not bound yet
ErrorBody == <<>>                   \* r.text of a non-200 response

\* An href of the page, 10 * u + k: the URL u it resolves to and how it
\* is spelled.  k = 0 does not end in .rss; k = 1 (relative) and k = 2
\* (absolute) spell the same feed URL.
Hrefs == {10} \cup {10 * u + k : u \in Urls, k \in {1, 2}}

RECURSIVE SeqsUpTo(_, _)
SeqsUpTo(S, n) ==
    IF n = 0 THEN {<<>>}
    ELSE LET shorter == SeqsUpTo(S, n - 1)
         IN  shorter \cup {Append(s, x) : s \in shorter, x \in S}

Pages == SeqsUpTo(Hrefs, MaxLinks)

Range(s) == {s[i] : i \in 1..Len(s)}

Min(a, b) == IF a <= b THEN a ELSE b

VARIABLES
    pc,            \* position in main()
    args,          \* [timeout, min_feeds]: the parsed command line
    now,           \* time()
    timeout,       \* the value until() returned for the attempt
    r,             \* the last response: [status_code, text]; the text of
                   \* the dashboard page is its hrefs
    rss_urls,      \* list of feed URLs found on the page
    pending_urls,  \* deque of URLs still to fetch
    url,           \* the URL popped for the current attempt
    rss_start,     \* time() when the current attempt started
    result_set,    \* the manifest in memory
    rss_fetched,   \* success counter
    dir,           \* does the run directory exist
    files,         \* content files of the run directory: name -> bytes
    tmp,           \* meta.yaml.gz.tmp: [exists, bytes]
    meta,          \* meta.yaml.gz: [exists, bytes]
    exitCode,      \* exit status, -1 while running
    \* history variables (not program state)
    pending_ids,   \* position in rss_urls of each entry of pending_urls
    cur_id,        \* position in rss_urls of the popped entry
    tried,         \* positions attempted at least once
    since,         \* position -> positions attempted since its last attempt
    snapshots,     \* manifests as they stood after each record was built
    fetches,       \* successful fetches: [url, text, at, record]
    hist           \* [dash, fault, gt, last]: what has happened so far

vars == <<pc, args, now, timeout, r, rss_urls, pending_urls, url,
          rss_start, result_set, rss_fetched, dir, files, tmp, meta,
          exitCode, pending_ids, cur_id, tried, since, snapshots, fetches,
          hist>>

progVars == <<args, now, timeout, r, rss_urls, pending_urls, url,
              rss_start, result_set, rss_fetched>>
diskVars == <<dir, files, tmp, meta>>
ghostVars == <<pending_ids, cur_id, tried, since, snapshots, fetches>>

\* ------------------------------------------------------ pure functions

\* until(wait) at time t: the clamped wait, or "raise" for GlobalTimeout.
UntilOffByOne(wait, t) ==
    LET result == Min(wait, StartTime + args.timeout - t)
    IN  [raise |-> result < 0, value |-> result]

Until(wait, t) ==
    LET result == Min(wait, StartTime + args.timeout - t)
    IN  [raise |-> result <= 0, value |-> result]

\* url.endswith('.rss')
EndsWithRss(href) == href % 10 # 0

\* urljoin(args.dashboard_url, url): both spellings give the absolute URL.
UrlJoin(href) == href \div 10

\* The loop over rss_re.finditer(r.text): the .rss hrefs, in page order,
\* resolved; nothing is removed for being a duplicate.
ExtractLinks(p) ==
    LET rss == SelectSeq(p, EndsWithRss)
    IN  [i \in 1..Len(rss) |-> UrlJoin(rss[i])]

\* s.encode('utf-8'): character 2 takes two bytes.
RECURSIVE EncodeUtf8(_)
EncodeUtf8(s) ==
    IF s = <<>> THEN <<>>
    ELSE (IF Head(s) = 2 THEN <<194, 128>> ELSE <<Head(s)>>)
         \o EncodeUtf8(Tail(s))

\* The text a reader gets from the bytes of a content file (the inverse of
\* EncodeUtf8 on whole files).
RECURSIVE DecodeUtf8(_)
DecodeUtf8(b) ==
    IF b = <<>> THEN <<>>
    ELSE IF Head(b) = 194 /\ Len(b) >= 2
         THEN <<2>> \o DecodeUtf8(Tail(Tail(b)))
         ELSE <<Head(b)>> \o DecodeUtf8(Tail(b))

\* sha256((url + ":" + r.text).encode('utf-8')).hexdigest() + ".rss",
\* taken to be collision free: the name stands for its preimage.
FileName(u, t) == <<"sha256", u, EncodeUtf8(t), ".rss">>

RECURSIVE SortedSeq(_)
SortedSeq(S) ==
    IF S = {} THEN <<>>
    ELSE LET m == CHOOSE x \in S : \A y \in S : x <= y
         IN  <<m>> \o SortedSeq(S \ {m})

\* yaml.dump(result_set): the top-level keys in sorted order, the url_info
\* mapping as one entry per key, keys sorted.
DumpEntries(info) ==
    LET keys == SortedSeq(DOMAIN info)
    IN  [i \in 1..Len(keys) |-> <<"entry", keys[i], info[keys[i]]>>]

Dump(rs) ==
    <<  <<"dashboard_url", rs.dashboard_url>>,
        <<"rss_urls", rs.rss_urls>>,
        <<"started", rs.started>>,
        <<"url_info", Len(DumpEntries(rs.url_info))>>  >>
    \o DumpEntries(rs.url_info)

\* Is a file's content a whole document written by Dump?
IsComplete(bytes) ==
    /\ Len(bytes) >= 4
    /\ bytes[1][1] = "dashboard_url"
    /\ bytes[4][1] = "url_info"
    /\ Len(bytes) = 4 + bytes[4][2]

\* yaml.load of a whole document.
Load(bytes) ==
    LET n == bytes[4][2]
        keys == {bytes[4 + i][2] : i \in 1..n}
    IN  [dashboard_url |-> bytes[1][2],
         rss_urls |-> bytes[2][2],
         started |-> bytes[3][2],
         url_info |-> [k \in keys |->
              LET i == CHOOSE j \in 1..n : bytes[4 + j][2] = k
              IN  bytes[4 + i][3]]]

\* Which exceptions "except Exception" (line 231) catches.  exit() raises
\* SystemExit, which is not an Exception.
TopLevelCatchesAll(exc) == TRUE

TopLevelCatches(exc) == exc \in {"Exception"}

\* ------------------------------------------------------------ initial

\* A faulty variant creates the run directory before the dashboard fetch.
InitWithDir ==
    /\ pc = "dash_until"
    /\ args \in [timeout : {0, MaxTimeout}, min_feeds : MinFeedsChoices]
    /\ now = StartTime
    /\ timeout = 0
    /\ r = NoResponse
    /\ rss_urls = <<>>
    /\ pending_urls = <<>>
    /\ url = NoUrl
    /\ rss_start = 0
    /\ result_set = [dashboard_url |-> DashboardUrl, rss_urls |-> <<>>,
                     started |-> StartTime, url_info |-> <<>>]
    /\ rss_fetched = 0
    /\ dir = TRUE
    /\ files = <<>>
    /\ tmp = NoFile
    /\ meta = NoFile
    /\ exitCode = 0 - 1
    /\ pending_ids = <<>>
    /\ cur_id = 0
    /\ tried = {}
    /\ since = <<>>
    /\ snapshots = {}
    /\ fetches = {}
    /\ hist = [dash |-> FALSE, fault |-> FALSE, gt |-> "none",
               last |-> "none"]

Init ==
    /\ pc = "dash_until"
    /\ args \in [timeout : {0, MaxTimeout}, min_feeds : MinFeedsChoices]
    /\ now = StartTime
    /\ timeout = 0
    /\ r = NoResponse
    /\ rss_urls = <<>>
    /\ pending_urls = <<>>
    /\ url = NoUrl
    /\ rss_start = 0
    /\ result_set = [dashboard_url |-> DashboardUrl, rss_urls |-> <<>>,
                     started |-> StartTime, url_info |-> <<>>]
    /\ rss_fetched = 0
    /\ dir = FALSE
    /\ files = <<>>
    /\ tmp = NoFile
    /\ meta = NoFile
    /\ exitCode = 0 - 1
    /\ pending_ids = <<>>
    /\ cur_id = 0
    /\ tried = {}
    /\ since = <<>>
    /\ snapshots = {}
    /\ fetches = {}
    /\ hist = [dash |-> FALSE, fault |-> FALSE, gt |-> "none",
               last |-> "none"]

\* ----------------------------------------------------- leaving main()

\* exit(code) called inside the outer try block: SystemExit propagates
\* through "except Exception" unless that clause catches it.
ExitInsideTry(code) ==
    IF TopLevelCatches("SystemExit")
    THEN /\ pc' = "except_exc"
         /\ UNCHANGED exitCode
    ELSE /\ pc' = "done"
         /\ exitCode' = code

\* An unexpected exception (anything but RequestTimeout, BadResponse and
\* GlobalTimeout) raised at the current position: caught at line 231.
RaiseFault ==
    /\ pc' = "except_exc"
    /\ hist' = [hist EXCEPT !.fault = TRUE]
    /\ UNCHANGED exitCode

Put(f, k, v) == [x \in DOMAIN f \cup {k} |-> IF x = k THEN v ELSE f[x]]

File(bytes) == [exists |-> TRUE, bytes |-> bytes]

\* ------------------------------------------------- the dashboard phase

\* Line 133: timeout=until(randrange(60, 300)).
DashUntil ==
    /\ pc = "dash_until"
    /\ \E wait \in DashWaits :
         LET res == Until(wait, now)
         IN  IF res.raise
             THEN /\ pc' = "except_gt_dash"
                  /\ hist' = [hist EXCEPT !.gt = "dash"]
                  /\ UNCHANGED timeout
             ELSE /\ pc' = "dash_get"
                  /\ timeout' = res.value
                  /\ UNCHANGED hist
    /\ UNCHANGED <<args, now, r, rss_urls, pending_urls, url,
                   rss_start, result_set, rss_fetched, exitCode>>
    /\ UNCHANGED <<diskVars, ghostVars>>

\* Lines 132-141, s.get raising RequestTimeout: retry.  A faulty variant gives
\* up at the first timeout of the transport.
DashTimeoutGivesUp ==
    /\ pc = "dash_get"
    /\ \E d \in 1..timeout : now' = now + d
    /\ pc' = "except_gt_dash"
    /\ hist' = [hist EXCEPT !.gt = "dash"]
    /\ UNCHANGED <<args, timeout, r, rss_urls, pending_urls, url,
                   rss_start, result_set, rss_fetched, exitCode>>
    /\ UNCHANGED <<diskVars, ghostVars>>

DashTimeout ==
    /\ pc = "dash_get"
    /\ \E d \in 1..timeout : now' = now + d
    /\ pc' = "dash_until"
    /\ UNCHANGED <<args, timeout, r, rss_urls, pending_urls, url,
                   rss_start, result_set, rss_fetched, exitCode, hist>>
    /\ UNCHANGED <<diskVars, ghostVars>>

\* Lines 132-141, s.get returning a response: BadResponse unless 200.
DashResponse ==
    /\ pc = "dash_get"
    /\ \E d \in 1..timeout : now' = now + d
    /\ \E status \in Statuses :
         IF status # 200
         THEN /\ r' = [status_code |-> status, text |-> ErrorBody]
              /\ pc' = "dash_until"
              /\ UNCHANGED hist
         ELSE /\ \E p \in Pages : r' = [status_code |-> status, text |-> p]
              /\ pc' = "extract"
              /\ hist' = [hist EXCEPT !.dash = TRUE]
    /\ UNCHANGED <<args, timeout, rss_urls, pending_urls, url,
                   rss_start, result_set, rss_fetched, exitCode>>
    /\ UNCHANGED <<diskVars, ghostVars>>

\* Lines 132-133, s.get raising anything else (e.g. ConnectionError).
DashFault ==
    /\ pc = "dash_get"
    /\ \E d \in 1..timeout : now' = now + d
    /\ RaiseFault
    /\ UNCHANGED <<args, timeout, r, rss_urls, pending_urls, url,
                   rss_start, result_set, rss_fetched>>
    /\ UNCHANGED <<diskVars, ghostVars>>

\* Lines 142-145: except GlobalTimeout of the dashboard loop.
ExceptGtDash ==
    /\ pc = "except_gt_dash"
    /\ ExitInsideTry(3)
    /\ UNCHANGED <<progVars, diskVars, ghostVars, hist>>

\* Lines 147-156: the links of the page; urljoin may raise.
Extract ==
    /\ pc = "extract"
    /\ \/ /\ rss_urls' = ExtractLinks(r.text)
          /\ pc' = "makedirs"
          /\ UNCHANGED <<exitCode, hist>>
       \/ /\ RaiseFault
          /\ UNCHANGED rss_urls
    /\ UNCHANGED <<args, now, timeout, r, pending_urls, url,
                   rss_start, result_set, rss_fetched>>
    /\ UNCHANGED <<diskVars, ghostVars>>

\* Lines 159-162: makedirs(save_dir); OSError when it cannot be created.
Makedirs ==
    /\ pc = "makedirs"
    /\ \/ /\ dir' = TRUE
          /\ pc' = "init_queue"
          /\ UNCHANGED <<exitCode, hist>>
       \/ /\ RaiseFault
          /\ UNCHANGED dir
    /\ UNCHANGED <<progVars, files, tmp, meta, ghostVars>>

\* Lines 169-177: the queue, the manifest and the counter.
InitQueue ==
    /\ pc = "init_queue"
    /\ pending_urls' = rss_urls
    /\ result_set' = [dashboard_url |-> DashboardUrl, rss_urls |-> rss_urls,
                      started |-> StartTime, url_info |-> <<>>]
    /\ rss_fetched' = 0
    /\ pending_ids' = [i \in 1..Len(rss_urls) |-> i]
    /\ since' = [i \in 1..Len(rss_urls) |-> {}]
    /\ pc' = "rss_loop"
    /\ UNCHANGED <<args, now, timeout, r, rss_urls, url, rss_start,
                   exitCode, cur_id, tried, snapshots, fetches, hist>>
    /\ UNCHANGED diskVars
\* --------------------------------------------------- the drain phase

\* pending_urls.append(url), line 191.
RequeueAtHead(q, x) == <<x>> \o q

RequeueTwice(q, x) == Append(Append(q, x), x)

RequeueDrops(q, x) == q

Requeue(q, x) == Append(q, x)

\* Lines 180-181: the loop test and pending_urls.popleft().
RssLoop ==
    /\ pc = "rss_loop"
    /\ IF Len(pending_urls) > 0
       THEN /\ url' = Head(pending_urls)
            /\ pending_urls' = Tail(pending_urls)
            /\ cur_id' = Head(pending_ids)
            /\ pending_ids' = Tail(pending_ids)
            /\ pc' = "rss_until"
       ELSE /\ pc' = "min_feeds"
            /\ UNCHANGED <<url, pending_urls, cur_id, pending_ids>>
    /\ UNCHANGED <<args, now, timeout, r, rss_urls, rss_start,
                   result_set, rss_fetched, exitCode, tried, since,
                   snapshots, fetches, hist>>
    /\ UNCHANGED diskVars

\* Lines 182-183: timeout = until(randrange(10, 60)); rss_start = time().
RssUntil ==
    /\ pc = "rss_until"
    /\ \E wait \in ItemWaits :
         LET res == Until(wait, now)
         IN  IF res.raise
             THEN /\ pc' = "except_gt_rss"
                  /\ hist' = [hist EXCEPT !.gt = "rss"]
                  /\ UNCHANGED <<timeout, rss_start>>
             ELSE /\ pc' = "rss_get"
                  /\ timeout' = res.value
                  /\ rss_start' = now
                  /\ UNCHANGED hist
    /\ UNCHANGED <<args, now, r, rss_urls, pending_urls, url,
                   result_set, rss_fetched, exitCode>>
    /\ UNCHANGED <<diskVars, ghostVars>>

\* The attempt of cur_id is over: what has been attempted since when.
Attempted ==
    /\ tried' = tried \cup {cur_id}
    /\ since' = [i \in DOMAIN since |->
                   IF i = cur_id THEN {} ELSE since[i] \cup {cur_id}]

\* Lines 190-192: the item goes back to the queue.
RequeueItem ==
    /\ pending_urls' = Requeue(pending_urls, url)
    /\ pending_ids' = Requeue(pending_ids, cur_id)
    /\ pc' = "rss_loop"
    /\ hist' = [hist EXCEPT !.last = "requeue"]

\* Lines 186-192, s.get raising RequestTimeout.
RssTimeout ==
    /\ pc = "rss_get"
    /\ \E d \in 1..timeout : now' = now + d
    /\ RequeueItem
    /\ Attempted
    /\ UNCHANGED <<args, timeout, r, rss_urls, url, rss_start,
                   result_set, rss_fetched, exitCode, cur_id, snapshots,
                   fetches>>
    /\ UNCHANGED diskVars

\* Lines 186-192, s.get returning a response: BadResponse unless 200.
RssResponse ==
    /\ pc = "rss_get"
    /\ \E d \in 1..timeout : now' = now + d
    /\ \E status \in Statuses :
         IF status # 200
         THEN /\ r' = [status_code |-> status, text |-> ErrorBody]
              /\ RequeueItem
         ELSE /\ \E t \in Texts : r' = [status_code |-> status, text |-> t]
              /\ pc' = "record"
              /\ UNCHANGED <<pending_urls, pending_ids, hist>>
    /\ Attempted
    /\ UNCHANGED <<args, timeout, rss_urls, url, rss_start,
                   result_set, rss_fetched, exitCode, cur_id, snapshots,
                   fetches>>
    /\ UNCHANGED diskVars

\* Line 186, s.get raising anything else.
RssFault ==
    /\ pc = "rss_get"
    /\ \E d \in 1..timeout : now' = now + d
    /\ RaiseFault
    /\ Attempted
    /\ UNCHANGED <<args, timeout, r, rss_urls, pending_urls, url,
                   rss_start, result_set, rss_fetched, pending_ids, cur_id,
                   snapshots, fetches>>
    /\ UNCHANGED diskVars

\* Lines 198-204: the FetchRecord of this fetch.  A faulty variant names
\* the file after the time of the fetch.
FetchRecordNamedByTime(u, t, start, fetched) ==
    [url |-> u, file |-> <<"sha256", u, <<fetched>>, ".rss">>,
     fetched |-> fetched, elapsed |-> fetched - start, size |-> Len(t)]

FetchRecord(u, t, start, fetched) ==
    [url |-> u, file |-> FileName(u, t), fetched |-> fetched,
     elapsed |-> fetched - start, size |-> Len(t)]

\* Lines 194-204: result_set['url_info'][key] = {...}.  A faulty variant goes
\* on to the manifest without writing the content file.
RecordWithoutBlob ==
    /\ pc = "record"
    /\ result_set' = [result_set EXCEPT !.url_info =
                         Put(@, url, FetchRecord(url, r.text, rss_start, now))]
    /\ snapshots' = snapshots \cup {result_set'}
    /\ fetches' = fetches \cup
         {[url |-> url, text |-> r.text, at |-> now,
           record |-> result_set'.url_info[url]]}
    /\ pc' = "open_tmp"
    /\ UNCHANGED <<args, now, timeout, r, rss_urls, pending_urls,
                   url, rss_start, rss_fetched, exitCode, pending_ids,
                   cur_id, tried, since, hist>>
    /\ UNCHANGED diskVars

Record ==
    /\ pc = "record"
    /\ result_set' = [result_set EXCEPT !.url_info =
                         Put(@, url, FetchRecord(url, r.text, rss_start, now))]
    /\ snapshots' = snapshots \cup {result_set'}
    /\ fetches' = fetches \cup
         {[url |-> url, text |-> r.text, at |-> now,
           record |-> result_set'.url_info[url]]}
    /\ pc' = "open_data"
    /\ UNCHANGED <<args, now, timeout, r, rss_urls, pending_urls,
                   url, rss_start, rss_fetched, exitCode, pending_ids,
                   cur_id, tried, since, hist>>
    /\ UNCHANGED diskVars

\* Line 209: gzip.open(data_file + ".gz", "wb") creates or truncates.
OpenData ==
    /\ pc = "open_data"
    /\ \/ /\ files' = Put(files, FileName(url, r.text), <<>>)
          /\ pc' = "write_data"
          /\ UNCHANGED <<exitCode, hist>>
       \/ /\ RaiseFault
          /\ UNCHANGED files
    /\ UNCHANGED <<progVars, dir, tmp, meta, ghostVars>>

\* Lines 209-210: f.write(r.text.encode('utf-8')) and the close.
WriteData ==
    /\ pc = "write_data"
    /\ \/ /\ files' = Put(files, FileName(url, r.text), EncodeUtf8(r.text))
          /\ pc' = "open_tmp"
          /\ UNCHANGED <<exitCode, hist>>
       \/ /\ RaiseFault
          /\ UNCHANGED files
    /\ UNCHANGED <<progVars, dir, tmp, meta, ghostVars>>

\* Line 212: gzip.open(meta_file + ".gz.tmp", "wb").  A faulty variant opens
\* the canonical path instead.
OpenTmpInPlace ==
    /\ pc = "open_tmp"
    /\ meta' = File(<<>>)
    /\ tmp' = File(<<>>)
    /\ pc' = "write_tmp"
    /\ UNCHANGED <<exitCode, hist>>
    /\ UNCHANGED <<progVars, dir, files, ghostVars>>

OpenTmp ==
    /\ pc = "open_tmp"
    /\ \/ /\ tmp' = File(<<>>)
          /\ pc' = "write_tmp"
          /\ UNCHANGED <<exitCode, hist>>
       \/ /\ RaiseFault
          /\ UNCHANGED tmp
    /\ UNCHANGED <<progVars, dir, files, meta, ghostVars>>

\* Lines 212-213: f.write(yaml.dump(result_set)) and the close.  A write
\* that fails leaves some prefix of the document.  A faulty variant dumps the
\* manifest as it was before the record of this fetch was added.
WriteTmpStale ==
    /\ pc = "write_tmp"
    /\ tmp' = File(Dump([result_set EXCEPT !.url_info =
                 [k \in DOMAIN @ \ {url} |-> @[k]]]))
    /\ pc' = "rename"
    /\ UNCHANGED <<exitCode, hist>>
    /\ UNCHANGED <<progVars, dir, files, meta, ghostVars>>

WriteTmp ==
    /\ pc = "write_tmp"
    /\ \/ /\ tmp' = File(Dump(result_set))
          /\ pc' = "rename"
          /\ UNCHANGED <<exitCode, hist>>
       \/ /\ \E n \in 0..(Len(Dump(result_set)) - 1) :
               tmp' = File(SubSeq(Dump(result_set), 1, n))
          /\ RaiseFault
    /\ UNCHANGED <<progVars, dir, files, meta, ghostVars>>

\* Line 215: rename(meta_file + ".gz.tmp", meta_file + ".gz").
Rename ==
    /\ pc = "rename"
    /\ \/ /\ meta' = tmp
          /\ tmp' = NoFile
          /\ pc' = "incr"
          /\ UNCHANGED <<exitCode, hist>>
       \/ /\ RaiseFault
          /\ UNCHANGED <<tmp, meta>>
    /\ UNCHANGED <<progVars, dir, files, ghostVars>>

\* Line 217: rss_fetched += 1, and back to the loop test.
Incr ==
    /\ pc = "incr"
    /\ rss_fetched' = rss_fetched + 1
    /\ pc' = "rss_loop"
    /\ hist' = [hist EXCEPT !.last = "success"]
    /\ UNCHANGED <<args, now, timeout, r, rss_urls, pending_urls,
                   url, rss_start, result_set, exitCode>>
    /\ UNCHANGED <<diskVars, ghostVars>>

\* Lines 219-224: except GlobalTimeout of the drain loop.  One faulty
\* variant treats the expiry like a failed attempt and requeues the item,
\* the other looks at the minimum count first.
ExceptGtRssRequeues ==
    /\ pc = "except_gt_rss"
    /\ pending_urls' = Append(pending_urls, url)
    /\ pending_ids' = Append(pending_ids, cur_id)
    /\ pc' = "rss_loop"
    /\ UNCHANGED <<args, now, timeout, r, rss_urls, url, rss_start,
                   result_set, rss_fetched, exitCode, cur_id, tried, since,
                   snapshots, fetches, hist>>
    /\ UNCHANGED diskVars

ExceptGtRssMinFirst ==
    /\ pc = "except_gt_rss"
    /\ IF Len(rss_urls) < args.min_feeds
       THEN ExitInsideTry(5)
       ELSE ExitInsideTry(4)
    /\ UNCHANGED <<progVars, diskVars, ghostVars, hist>>

ExceptGtRss ==
    /\ pc = "except_gt_rss"
    /\ ExitInsideTry(4)
    /\ UNCHANGED <<progVars, diskVars, ghostVars, hist>>

\* Lines 226-230: the minimum-count check; falls through to line 236.
\* One faulty variant makes the check before the drain loop too, the other
\* rejects a count equal to the minimum.
MinFeedsEarly ==
    /\ pc \in {"rss_loop", "min_feeds"}
    /\ IF Len(rss_urls) < args.min_feeds
       THEN ExitInsideTry(5)
       ELSE /\ pc = "min_feeds"
            /\ pc' = "exit0"
            /\ UNCHANGED exitCode
    /\ UNCHANGED <<progVars, diskVars, ghostVars, hist>>

MinFeedsOffByOne ==
    /\ pc = "min_feeds"
    /\ IF Len(rss_urls) <= args.min_feeds
       THEN ExitInsideTry(5)
       ELSE /\ pc' = "exit0"
            /\ UNCHANGED exitCode
    /\ UNCHANGED <<progVars, diskVars, ghostVars, hist>>

MinFeeds ==
    /\ pc = "min_feeds"
    /\ IF Len(rss_urls) < args.min_feeds
       THEN ExitInsideTry(5)
       ELSE /\ pc' = "exit0"
            /\ UNCHANGED exitCode
    /\ UNCHANGED <<progVars, diskVars, ghostVars, hist>>

\* Lines 231-234: except Exception: print the trace and exit(1).
ExceptExc ==
    /\ pc = "except_exc"
    /\ pc' = "done"
    /\ exitCode' = 1
    /\ UNCHANGED <<progVars, diskVars, ghostVars, hist>>

\* Line 236: exit(0).
Exit0 ==
    /\ pc = "exit0"
    /\ pc' = "done"
    /\ exitCode' = 0
    /\ UNCHANGED <<progVars, diskVars, ghostVars, hist>>

\* The process is killed at any point of the run: its memory is gone,
\* the disk and the clock stay as they are.
Kill ==
    /\ pc \notin {"done", "killed"}
    /\ pc' = "killed"
    /\ timeout' = 0
    /\ r' = NoResponse
    /\ rss_urls' = <<>>
    /\ pending_urls' = <<>>
    /\ url' = NoUrl
    /\ rss_start' = 0
    /\ result_set' = [dashboard_url |-> DashboardUrl, rss_urls |-> <<>>,
                      started |-> StartTime, url_info |-> <<>>]
    /\ rss_fetched' = 0
    /\ pending_ids' = <<>>
    /\ cur_id' = 0
    /\ tried' = {}
    /\ since' = <<>>
    /\ UNCHANGED <<args, now, diskVars, snapshots, fetches, hist, exitCode>>

Next ==
    \/ DashUntil \/ DashTimeout \/ DashResponse \/ DashFault
    \/ ExceptGtDash \/ Extract \/ Makedirs \/ InitQueue
    \/ RssLoop \/ RssUntil \/ RssTimeout \/ RssResponse \/ RssFault
    \/ Record \/ OpenData \/ WriteData \/ OpenTmp \/ WriteTmp \/ Rename
    \/ Incr \/ ExceptGtRss \/ MinFeeds \/ ExceptExc \/ Exit0 \/ Kill

Spec == Init /\ [][Next]_vars

\* A run that is not killed: the interpreter always takes the next step
\* of main().
NextRun ==
    \/ DashUntil \/ DashTimeout \/ DashResponse \/ DashFault
    \/ ExceptGtDash \/ Extract \/ Makedirs \/ InitQueue
    \/ RssLoop \/ RssUntil \/ RssTimeout \/ RssResponse \/ RssFault
    \/ Record \/ OpenData \/ WriteData \/ OpenTmp \/ WriteTmp \/ Rename
    \/ Incr \/ ExceptGtRss \/ MinFeeds \/ ExceptExc \/ Exit0

LiveSpec == Init /\ [][NextRun]_vars /\ WF_vars(NextRun)

Done == pc = "done"
Deadline == StartTime + args.timeout

Running == pc \notin {"done", "killed"}

\* The manifest read back from meta.yaml.gz.
OnDisk == Load(meta.bytes)

\* ------------------------------------------------------------- claims

\* C1: round-robin fairness of the item-fetch loop.  The queue is served
\* from its head and a failed item goes to its tail, so when an item
\* (an entry of the list of discovered links) is attempted again, every
\* other item still in the queue has been attempted since its previous
\* attempt.
C1_RoundRobin ==
    /\ Len(pending_ids) = Len(pending_urls)
    /\ \A i \in 1..Len(pending_ids) :
         rss_urls[pending_ids[i]] = pending_urls[i]
    /\ (pc \in {"rss_until", "rss_get"} /\ cur_id \in tried)
         => Range(pending_ids) \subseteq since[cur_id]

\* A second attempt of an item is in flight while another item is pending.
C1_Witness ==
    /\ pc = "rss_get"
    /\ cur_id \in tried
    /\ pending_ids # <<>>

\* C2: atomic manifest write.  In every state, a kill at any step
\* included, meta.yaml.gz is absent (and then no fetch has been counted)
\* or holds a whole document that is the manifest as it stood after some
\* successful fetch of this run; and meta.yaml.gz changes only by the
\* rename of a wholly written meta.yaml.gz.tmp onto it.
C2_MetaState ==
    IF meta.exists
    THEN IsComplete(meta.bytes) /\ OnDisk \in snapshots
    ELSE rss_fetched = 0

C2_MetaStep ==
    meta' # meta =>
        /\ pc = "rename"
        /\ tmp.exists
        /\ IsComplete(tmp.bytes)
        /\ meta' = tmp

C2_AtomicManifest == [](C2_MetaState) /\ [][C2_MetaStep]_vars

\* Killed between the write of the temporary file and the rename, with an
\* older manifest in place.
C2_Witness ==
    /\ pc = "killed"
    /\ tmp.exists
    /\ IsComplete(tmp.bytes)
    /\ meta.exists
    /\ meta.bytes # tmp.bytes

\* C3: write-before-reference.  In every state, a kill at any step
\* included, each FetchRecord of the manifest on disk names a content
\* file that exists in the run directory.
C3_WriteBeforeReference ==
    meta.exists =>
        /\ dir
        /\ IsComplete(meta.bytes)
        /\ \A k \in DOMAIN OnDisk.url_info :
             OnDisk.url_info[k].file \in DOMAIN files

\* Killed after the content file of a later fetch was created and before
\* the manifest that names it was renamed into place.
C3_Witness ==
    /\ pc = "killed"
    /\ meta.exists
    /\ \E f \in DOMAIN files :
         \A k \in DOMAIN OnDisk.url_info : OnDisk.url_info[k].file # f

\* C4: manifest durability.  At the end of each successful iteration of
\* the drain loop the manifest read back from disk equals the manifest in
\* memory and holds, under the URL just fetched, a record with that URL,
\* the file name and the size of that fetch.
C4_ManifestDurability ==
    (pc = "rss_loop" /\ hist.last = "success") =>
        /\ meta.exists
        /\ IsComplete(meta.bytes)
        /\ OnDisk = result_set
        /\ url \in DOMAIN OnDisk.url_info
        /\ OnDisk.url_info[url].url = url
        /\ OnDisk.url_info[url].file = FileName(url, r.text)
        /\ OnDisk.url_info[url].size = Len(r.text)

\* The second successful iteration has just ended.
C4_Witness ==
    /\ pc = "rss_loop"
    /\ hist.last = "success"
    /\ rss_fetched = 2

\* C5: exit code 0 exactly when the dashboard page was fetched with
\* status 200, every discovered item was fetched (the queue is drained),
\* the number of discovered items is at least --min-feeds and no
\* unexpected fault occurred.
C5_ExitZero ==
    Done =>
        (exitCode = 0 <=>
            /\ hist.dash
            /\ ~hist.fault
            /\ pending_urls = <<>>
            /\ rss_fetched = Len(rss_urls)
            /\ Len(rss_urls) >= args.min_feeds)

\* A run that fetched two items, after a requeue, and needed two.
C5_Witness ==
    /\ Done
    /\ exitCode = 0
    /\ rss_fetched = 2
    /\ args.min_feeds = 2

\* C6: exit code 4.  When the deadline tracker finds the budget used up
\* in the drain phase (an item has been popped and is still unfetched)
\* the run ends with exit code 4 whatever --min-feeds is; exit code 4
\* occurs in no other case; and with it fewer items were fetched than
\* were discovered.  The tracker is asked only when an attempt is about
\* to start, so this is the expiry the claim is read to speak of.
C6_ExitFour ==
    /\ (Running /\ hist.gt = "rss") => pc = "except_gt_rss"
    /\ (pc # "killed" /\ hist.gt = "rss") =>
          /\ now >= Deadline
          /\ hist.dash
          /\ rss_fetched < Len(rss_urls)
    /\ Done => (exitCode = 4 <=> hist.gt = "rss")
    /\ (Done /\ hist.dash /\ ~hist.fault /\ rss_fetched < Len(rss_urls))
          => exitCode = 4

\* Exit 4 in a run whose number of discovered items is below --min-feeds.
C6_Witness ==
    /\ Done
    /\ exitCode = 4
    /\ Len(rss_urls) < args.min_feeds
    /\ rss_urls # <<>>

\* C7: exit code 3.  The dashboard fetch goes on after every expected
\* failure until a response has status 200, an unexpected fault occurs or
\* the deadline tracker finds the budget used up; in the last case, and
\* in no other, the run ends with exit code 3, and never once the page
\* has been fetched.
C7_ExitThree ==
    /\ (Running /\ ~hist.dash /\ ~hist.fault /\ hist.gt = "none")
          => pc \in {"dash_until", "dash_get"}
    /\ (Running /\ hist.gt = "dash") => pc = "except_gt_dash"
    /\ hist.gt = "dash" => (now >= Deadline /\ ~hist.dash)
    /\ Done => (exitCode = 3 <=> hist.gt = "dash")
    /\ (Done /\ ~hist.dash /\ ~hist.fault) => exitCode = 3
    /\ (Done /\ exitCode = 3) => ~hist.dash

\* Exit 3 after at least one attempt that was answered with a bad status.
C7_Witness ==
    /\ Done
    /\ exitCode = 3
    /\ r.status_code = 503

\* C8: exit code 5 exactly when every discovered item was fetched (the
\* queue was drained, without expiry of the deadline and without fault)
\* and fewer items were discovered than --min-feeds; the count is looked
\* at only once the drain loop has finished.
C8_ExitFive ==
    /\ Done =>
         (exitCode = 5 <=>
            /\ hist.dash
            /\ ~hist.fault
            /\ pending_urls = <<>>
            /\ rss_fetched = Len(rss_urls)
            /\ Len(rss_urls) < args.min_feeds)
    /\ (Done /\ exitCode = 5) => hist.gt = "none"
    /\ pc = "min_feeds" =>
         (pending_urls = <<>> /\ rss_fetched = Len(rss_urls))

\* Exit 5 after the one discovered item was fetched.
C8_Witness ==
    /\ Done
    /\ exitCode = 5
    /\ rss_fetched = 1
    /\ meta.exists

\* C9: exit code 1 exactly when an unexpected fault occurred; after the
\* fault nothing is attempted or written any more; the exits 3, 4 and 5
\* raised inside the outer try block keep their codes.
C9_FaultState ==
    /\ Done => (exitCode = 1 <=> hist.fault)
    /\ (Running /\ hist.fault) => pc = "except_exc"
    /\ (Done /\ hist.gt = "dash") => exitCode = 3
    /\ (Done /\ hist.gt = "rss") => exitCode = 4
    /\ hist.fault => hist.gt = "none"

C9_FaultStep ==
    hist.fault =>
        /\ UNCHANGED <<now, diskVars, snapshots>>
        /\ pc' \in {"done", "killed"}

C9_ExitOne == [](C9_FaultState) /\ [][C9_FaultStep]_vars

\* Exit 1 for a fault in the drain phase, after a manifest was written.
C9_Witness ==
    /\ Done
    /\ exitCode = 1
    /\ meta.exists
    /\ hist.last = "requeue"

\* C10: the deadline tracker.  The deadline never moves; the timeout of
\* every attempt is min(w, deadline - now) for a wait w of the range of
\* its phase and is positive; with nothing left of the budget until()
\* raises GlobalTimeout, and no attempt starts.
C10_UntilState ==
    /\ pc = "dash_get" =>
         /\ timeout > 0
         /\ \E w \in DashWaits : timeout = Min(w, Deadline - now)
    /\ pc = "rss_get" =>
         /\ timeout > 0
         /\ \E w \in ItemWaits : timeout = Min(w, Deadline - now)
    /\ \A w \in DashWaits \cup ItemWaits :
         /\ Until(w, now).raise <=> Min(w, Deadline - now) <= 0
         /\ Until(w, now).value = Min(w, Deadline - now)

C10_UntilStep ==
    /\ args' = args
    /\ (pc \in {"dash_until", "rss_until"} /\ Deadline - now <= 0)
         => pc' \in {"except_gt_dash", "except_gt_rss", "killed"}
    /\ (pc' \in {"dash_get", "rss_get"} /\ pc' # pc)
         => (Deadline - now > 0 /\ now' = now)

C10_DeadlineTracker == [](C10_UntilState) /\ [][C10_UntilStep]_vars

\* A dashboard attempt whose timeout is what is left of the budget, less
\* than any wait that can be drawn.
C10_Witness ==
    /\ pc = "dash_get"
    /\ timeout = 1
    /\ timeout = Deadline - now

\* C11: on-disk result of a completed run.  Whenever a run ends with exit
\* code 0 or 5, the run directory holds meta.yaml.gz, the manifest in it
\* has one entry per discovered item, and the directory has one content
\* file per discovered item.
C11_CompletedRunOnDisk ==
    (Done /\ exitCode \in {0, 5}) =>
        /\ dir
        /\ meta.exists
        /\ IsComplete(meta.bytes)
        /\ Cardinality(DOMAIN OnDisk.url_info) = Len(rss_urls)
        /\ Cardinality(DOMAIN files) = Len(rss_urls)

\* C12: termination.  The clock advances with every attempt and every
\* attempt returns within its timeout (both are how the attempts are
\* modelled); then every run that is not killed ends, with one exit code
\* of 0, 1, 3, 4, 5 that is set once, however long the dashboard or an
\* item goes on failing.
C12_Termination ==
    /\ <>Done
    /\ [](Done => exitCode \in {0, 1, 3, 4, 5})
    /\ [](~Done => exitCode = 0 - 1)
    /\ [][~Done]_vars

\* A run ended by the deadline after an item was answered with a bad
\* status on its last attempt.
C12_Witness ==
    /\ Done
    /\ exitCode = 4
    /\ r.status_code = 503
    /\ cur_id \in tried

\* C13: idempotent naming.  The file name of a FetchRecord depends on the
\* URL and the fetched content only: two successful fetches of the same
\* URL with the same content get the same name, whatever their time,
\* duration and place in the queue.
C13_IdempotentNaming ==
    /\ \A a \in fetches : \A b \in fetches :
         (a.url = b.url /\ a.text = b.text)
            => a.record.file = b.record.file
    /\ \A a \in fetches : a.record.file = FileName(a.url, a.text)

\* The same URL was fetched twice, at different times, with equal content.
C13_Witness ==
    \E a \in fetches : \E b \in fetches :
        /\ a.url = b.url
        /\ a.text = b.text
        /\ a.at # b.at
        /\ a.record.elapsed # b.record.elapsed

\* C14: the manifest mapping only grows.  Once url_info, in memory or in
\* meta.yaml.gz, holds a record for a URL, no step of the run removes
\* that record or puts a different one in its place.
C14_KeepsMemory ==
    \A k \in DOMAIN result_set.url_info :
        /\ k \in DOMAIN result_set'.url_info
        /\ result_set'.url_info[k] = result_set.url_info[k]

C14_KeepsDisk ==
    meta.exists =>
        /\ meta'.exists
        /\ IsComplete(meta'.bytes)
        /\ \A k \in DOMAIN OnDisk.url_info :
             /\ k \in DOMAIN Load(meta'.bytes).url_info
             /\ Load(meta'.bytes).url_info[k] = OnDisk.url_info[k]

C14_MappingOnlyGrows ==
    [][(pc' # "killed" => C14_KeepsMemory) /\ C14_KeepsDisk]_vars

\* C15: a requeue leaves everything else as it was.  In an iteration that
\* ends in an expected failure no step, from the pop to the requeue,
\* changes the manifest in memory, meta.yaml.gz, the content files or the
\* success counter; the pop takes the head of the queue and the requeue
\* puts that item at its tail.
C15_IterationStep ==
    (pc \in {"rss_loop", "rss_until", "rss_get"}
        /\ pc' \in {"rss_loop", "rss_until", "rss_get", "except_gt_rss"})
    => /\ UNCHANGED <<result_set, rss_fetched, dir, files, tmp, meta>>
       /\ UNCHANGED <<rss_urls, snapshots, fetches>>

C15_PopStep ==
    (pc = "rss_loop" /\ pc' = "rss_until")
    => /\ pending_urls = <<url'>> \o pending_urls'
       /\ pending_ids = <<cur_id'>> \o pending_ids'

C15_RequeueStep ==
    (pc = "rss_get" /\ pc' = "rss_loop")
    => /\ pending_urls' = pending_urls \o <<url>>
       /\ pending_ids' = pending_ids \o <<cur_id>>
       /\ url' = url
       /\ hist'.last = "requeue"

C15_RequeueFrame ==
    [][C15_IterationStep /\ C15_PopStep /\ C15_RequeueStep]_vars

\* An item was requeued after another one was fetched and recorded.
C15_Witness ==
    /\ pc = "rss_loop"
    /\ hist.last = "requeue"
    /\ pending_urls = <<url>>
    /\ rss_fetched = 1
    /\ meta.exists

\* Item i of the discovered list is in the queue or has a FetchRecord.
Accounted(i) ==
    \/ i \in Range(pending_ids)
    \/ rss_urls[i] \in DOMAIN result_set.url_info

\* C16 as claimed: at every iteration boundary of the drain loop and at
\* the end of the run, the end by expiry of the deadline included, every
\* discovered item is in the pending queue or has a FetchRecord.  (Stated
\* here for the runs without unexpected fault.)
C16_NeverLost ==
    (pc = "rss_loop" \/ (Done /\ dir /\ ~hist.fault))
        => \A i \in 1..Len(rss_urls) : Accounted(i)

\* C16 as it holds: at every iteration boundary every discovered item is
\* in the pending queue or has a FetchRecord; from the pop on, and at the
\* end of a run stopped by the deadline or by a fault, this holds of every
\* item but the one popped for the attempt that was cut short.
C16_LostOnlyWhenPopped ==
    /\ pc = "rss_loop" => \A i \in 1..Len(rss_urls) : Accounted(i)
    /\ (pc \notin {"killed", "init_queue"} /\ dir) =>
          \A i \in 1..Len(rss_urls) : Accounted(i) \/ i = cur_id
    /\ (Done /\ exitCode \in {0, 5}) =>
          \A i \in 1..Len(rss_urls) :
              rss_urls[i] \in DOMAIN result_set.url_info

\* The run was stopped by the deadline with an item popped: that item is
\* not in the queue and has no record, while another one is still queued.
C16_Witness ==
    /\ Done
    /\ exitCode = 4
    /\ cur_id \notin Range(pending_ids)
    /\ url \notin DOMAIN result_set.url_info
    /\ pending_urls # <<>>

\* C17: the success counter agrees with the manifest.  At every iteration
\* boundary of the drain loop and at the end of a run (exit 0, 4 or 5)
\* rss_fetched, the number printed with exit 4, is the number of
\* FetchRecords of the manifest in memory and of the manifest on disk.
C17_CounterIsManifestSize ==
    (pc = "rss_loop" \/ (Done /\ exitCode \in {0, 4, 5})) =>
        /\ rss_fetched = Cardinality(DOMAIN result_set.url_info)
        /\ IF meta.exists
           THEN rss_fetched = Cardinality(DOMAIN OnDisk.url_info)
           ELSE rss_fetched = 0

\* C18: a failed dashboard phase touches nothing.  Until the dashboard
\* page has been fetched with status 200, and so in every run that ends
\* with exit code 3, there is no run directory and no file and no item
\* has been popped or requested; the run directory exists whenever the
\* drain loop is running, so it is made before the first item attempt.
C18_DashboardPhaseFrame ==
    /\ ~hist.dash =>
          /\ ~dir
          /\ files = <<>>
          /\ ~tmp.exists
          /\ ~meta.exists
          /\ url = NoUrl
          /\ tried = {}
          /\ fetches = {}
    /\ (Done /\ exitCode = 3) => (~hist.dash /\ ~dir)
    /\ pc \in {"init_queue", "rss_loop", "rss_until", "rss_get", "record",
               "open_data", "write_data", "open_tmp", "write_tmp",
               "rename", "incr", "except_gt_rss", "min_feeds", "exit0"}
          => (dir /\ hist.dash)
    /\ (files # <<>> \/ tmp.exists \/ meta.exists \/ fetches # {}) => dir

\* Exit 3 after more than one dashboard attempt, the last one timed out
\* by the transport or answered with a bad status.
C18_Witness ==
    /\ Done
    /\ exitCode = 3
    /\ ~dir
    /\ now > StartTime
    /\ args.timeout > 0

\* C19: referenced blobs are whole and right.  In every state, a kill at
\* any step included, each content file named by a FetchRecord of
\* meta.yaml.gz exists and holds the content fetched for that record, of
\* the length the record gives; the write of a later blob never empties
\* or changes the blob of a record meta.yaml.gz already names.
C19_ReferencedBlobsIntact ==
    meta.exists =>
        \A k \in DOMAIN OnDisk.url_info :
            LET rec == OnDisk.url_info[k]
            IN  /\ rec.file \in DOMAIN files
                /\ \E f \in fetches :
                     /\ f.record = rec
                     /\ files[rec.file] = EncodeUtf8(f.text)
                /\ Len(DecodeUtf8(files[rec.file])) = rec.size
====
